---- MODULE Spec2Model ----
(***************************************************************************)
(* Model of nine.py: the ImageCache (decoded originals + per-size          *)
(* thumbnails), the sample bootstrap of _ensure_sample_options, the option *)
(* store filled by load_options_file, and the grid of cells whose combobox *)
(* selection is bound to a displayed thumbnail.                            *)
(***************************************************************************)
EXTENDS Integers, Sequences, FiniteSets, TLC

(***************************************************************************)
(* Program constants and model bounds                                      *)
(***************************************************************************)
\* nine.py:16-17
CELL_WIDTH == 220
CELL_HEIGHT == 220

\* Number of grid cells explored.  The source builds 3 x 3 = 9 cells
\* (nine.py:108-111) and treats every cell by the same code; the model
\* explores a smaller grid.
NumCells == 2

\* Largest image width / height explored by the thumbnail specification.
MaxDim == 224

\* Largest image side and largest box side explored by the box
\* specification.
MaxSide == 16

OPTIONS_JSON == "options.json"

\* range(9) of _ensure_sample_options (nine.py:137, 140)
NumSamples == 9

\* Status texts of status_var (nine.py:98, 182, 213), transliterated.
StatusReady == "ready"
StatusLoaded == "loaded: options.json"
StatusCleared == "cleared all cells"

\* Titles of the messagebox.showerror dialogs (nine.py:161, 168).
NoDialog == ""
LoadFailed == "Load Options Failed"
InvalidFormat == "Invalid Options Format"

(***************************************************************************)
(* Python values                                                           *)
(***************************************************************************)
\* A dict is a function on its key set.
EmptyDict == [k \in {} |-> 0]

Put(d, k, v) == [x \in (DOMAIN d) \cup {k} |-> IF x = k THEN v ELSE d[x]]

Count(d, k) == IF k \in DOMAIN d THEN d[k] ELSE 0

\* A file on disk: missing, present but undecodable, or a decodable image of
\* w x h pixels whose pixel content is named by pix.
Missing == [kind |-> "missing", pix |-> "", w |-> 0, h |-> 0]
Corrupt == [kind |-> "corrupt", pix |-> "", w |-> 0, h |-> 0]
ImageFile(pix, w, h) == [kind |-> "image", pix |-> pix, w |-> w, h |-> h]

\* PIL.Image objects (decoded originals).  serial tells two objects decoded
\* from the same path apart (object identity); None is NoneImg.
NoneImg == [path |-> "", pix |-> "", w |-> 0, h |-> 0, serial |-> 0]

\* ImageTk.PhotoImage objects.  serial tells two objects built for the same
\* key apart (object identity); None (and the widget's image="") is NoBitmap.
NoBitmap == [key |-> "", pix |-> "", w |-> 0, h |-> 0, serial |-> 0]

\* The size argument of get: None, or a (w, h) tuple.
NoSize == << >>
CellSize == <<CELL_WIDTH, CELL_HEIGHT>>

(***************************************************************************)
(* Image.thumbnail(size) of Pillow, as called at nine.py:52: the size of   *)
(* the image after the call.  aspect = w / h is kept as the fraction w/h   *)
(* and every comparison is cross-multiplied.                               *)
(***************************************************************************)
Abs(n) == IF n < 0 THEN -n ELSE n

Max2(a, b) == IF a >= b THEN a ELSE b

Floor(num, den) == num \div den

Ceil(num, den) == IF num % den = 0 THEN num \div den ELSE (num \div den) + 1

\* round_aspect(y * aspect, key = |aspect - n / y|): min() keeps the floor
\* when the keys are equal.
RoundAspectW(w, h, y) ==
    LET fl == Floor(y * w, h)
        ce == Ceil(y * w, h)
        kf == Abs(w * y - fl * h)
        kc == Abs(w * y - ce * h)
    IN  Max2(IF kf <= kc THEN fl ELSE ce, 1)

\* round_aspect(x / aspect, key = 0 if n == 0 else |aspect - x / n|)
RoundAspectH(w, h, x) ==
    LET fl == Floor(x * h, w)
        ce == Ceil(x * h, w)
    IN  IF fl = 0 THEN 1
        ELSE Max2(IF Abs(w * fl - x * h) * ce <= Abs(w * ce - x * h) * fl
                  THEN fl ELSE ce, 1)

\* Mutant of Thumbnail: the image is scaled to the box whether it is larger
\* than the box or not.
ThumbnailFill(w, h, size) ==
    IF size[1] * h >= w * size[2]
    THEN <<RoundAspectW(w, h, size[2]), size[2]>>
    ELSE <<size[1], RoundAspectH(w, h, size[1])>>

Thumbnail(w, h, size) ==
    LET x == size[1]
        y == size[2]
    IN  IF x >= w /\ y >= h THEN <<w, h>>
        ELSE IF x * h >= w * y THEN <<RoundAspectW(w, h, y), y>>
        ELSE <<x, RoundAspectH(w, h, x)>>

(***************************************************************************)
(* ImageCache                                                              *)
(***************************************************************************)
\* os.path.exists(path) on the file system f
Exists(f, path) == path \in DOMAIN f /\ f[path].kind # "missing"

\* str(size) of a two-tuple
SizeText(size) == "(" \o ToString(size[1]) \o ", " \o ToString(size[2]) \o ")"

\* key = f"{path}|{size}" if size else f"{path}|orig"
Key(path, size) ==
    IF Len(size) # 0 THEN path \o "|" \o SizeText(size) ELSE path \o "|orig"

\* Mutant of Decode: the decoded image is returned but never stored.
DecodeNoStore(c, f, path) ==
    IF f[path].kind = "image"
    THEN [img |-> [path |-> path, pix |-> f[path].pix, w |-> f[path].w,
                   h |-> f[path].h, serial |-> Count(c.decoded, path) + 1],
          c |-> [c EXCEPT !.decoded = Put(@, path, Count(c.decoded, path) + 1)]]
    ELSE [img |-> NoneImg, c |-> c]

\* Mutant of Decode: a failed decode is remembered as the path's entry.
DecodeCacheFailure(c, f, path) ==
    IF f[path].kind = "image"
    THEN [img |-> [path |-> path, pix |-> f[path].pix, w |-> f[path].w,
                   h |-> f[path].h, serial |-> Count(c.decoded, path) + 1],
          c |-> [c EXCEPT !.orig = Put(@, path,
                                       [path |-> path, pix |-> f[path].pix,
                                        w |-> f[path].w, h |-> f[path].h,
                                        serial |-> Count(c.decoded, path) + 1]),
                          !.decoded = Put(@, path, Count(c.decoded, path) + 1)]]
    ELSE [img |-> NoneImg, c |-> [c EXCEPT !.orig = Put(@, path, NoneImg)]]

\* A cache state c is [orig, thumb, decoded, made]: the two dicts of the
\* ImageCache and, per path / per key, how many Image / PhotoImage objects
\* have been created so far (the probes that number the objects).
\* Image.open(path).convert("RGBA"), storing the result on success
Decode(c, f, path) ==
    IF f[path].kind = "image"
    THEN LET n == Count(c.decoded, path) + 1
             img == [path |-> path, pix |-> f[path].pix, w |-> f[path].w,
                     h |-> f[path].h, serial |-> n]
         IN  [img |-> img,
              c |-> [c EXCEPT !.orig = Put(@, path, img),
                                   !.decoded = Put(@, path, n)]]
    ELSE [img |-> NoneImg, c |-> c]

\* Mutant of LoadOrig: the original-decode cache is never consulted.
LoadOrigAlwaysDecode(c, f, path) ==
    IF path = "" \/ ~Exists(f, path) THEN [img |-> NoneImg, c |-> c]
    ELSE Decode(c, f, path)

\* ImageCache._load_orig
LoadOrig(c, f, path) ==
    IF path = "" \/ ~Exists(f, path) THEN [img |-> NoneImg, c |-> c]
    ELSE IF path \in DOMAIN c.orig THEN [img |-> c.orig[path], c |-> c]
    ELSE Decode(c, f, path)

\* Mutant of CacheGet: the thumbnail cache is never consulted, every call
\* builds a PhotoImage and stores it under the key.
CacheGetAlwaysBuild(c, f, path, size) ==
    LET lo == LoadOrig(c, f, path)
        orig == lo.img
        key == Key(path, size)
    IN  IF orig = NoneImg THEN [ret |-> NoBitmap, c |-> lo.c]
        ELSE LET sz == IF Len(size) # 0 THEN Thumbnail(orig.w, orig.h, size)
                       ELSE <<orig.w, orig.h>>
                 n == Count(lo.c.made, key) + 1
                 tk_img == [key |-> key, pix |-> orig.pix, w |-> sz[1],
                            h |-> sz[2], serial |-> n]
             IN  [ret |-> tk_img,
                  c |-> [lo.c EXCEPT !.thumb = Put(@, key, tk_img),
                                     !.made = Put(@, key, n)]]

\* ImageCache.get: [ret |-> the PhotoImage or None, c |-> the cache after]
CacheGet(c, f, path, size) ==
    LET lo == LoadOrig(c, f, path)
        orig == lo.img
        key == Key(path, size)
    IN  IF orig = NoneImg THEN [ret |-> NoBitmap, c |-> lo.c]
        ELSE IF key \in DOMAIN lo.c.thumb
             THEN [ret |-> lo.c.thumb[key], c |-> lo.c]
        ELSE LET sz == IF Len(size) # 0 THEN Thumbnail(orig.w, orig.h, size)
                       ELSE <<orig.w, orig.h>>
                 n == Count(lo.c.made, key) + 1
                 tk_img == [key |-> key, pix |-> orig.pix, w |-> sz[1],
                            h |-> sz[2], serial |-> n]
             IN  [ret |-> tk_img,
                  c |-> [lo.c EXCEPT !.thumb = Put(@, key, tk_img),
                                     !.made = Put(@, key, n)]]

(***************************************************************************)
(* JSON values and the configuration file                                  *)
(***************************************************************************)
\* A JSON value: an integer, a string or null (Python None).
JInt(n) == [t |-> "int", n |-> n, s |-> ""]
JStr(s) == [t |-> "str", n |-> 0, s |-> s]
JNull == [t |-> "null", n |-> 0, s |-> ""]

\* An element of the array: a JSON object with the fields named by has, or
\* a value that is no object (isdict = FALSE).
Obj(has, id, name, image) ==
    [isdict |-> TRUE, has |-> has, id |-> id, name |-> name, image |-> image]
NotObj == [isdict |-> FALSE, has |-> {}, id |-> JNull, name |-> JNull,
           image |-> JNull]

AllFields == {"id", "name", "image"}

\* item.get(field): None when the object lacks the field
ItemGet(item, field) == IF field \in item.has THEN item[field] ELSE JNull

\* Largest id written as a decimal string that int() is asked to parse.
MaxIdText == 9

\* int(v): [ok |-> FALSE] stands for the TypeError / ValueError raised
PyInt(v) ==
    IF v.t = "int" THEN [ok |-> TRUE, n |-> v.n]
    ELSE IF v.t = "str" /\ \E n \in 0..MaxIdText : ToString(n) = v.s
         THEN [ok |-> TRUE, n |-> CHOOSE n \in 0..MaxIdText : ToString(n) = v.s]
    ELSE [ok |-> FALSE, n |-> 0]

\* str(v)
PyStr(v) ==
    IF v.t = "str" THEN v.s
    ELSE IF v.t = "int" THEN ToString(v.n)
    ELSE "None"

\* Option(id=int(item.get("id")), name=str(item.get("name")),
\*        image_path=str(item.get("image")))
MakeOption(item) ==
    LET id == PyInt(ItemGet(item, "id"))
    IN  IF item.isdict /\ id.ok
        THEN [ok |-> TRUE,
              opt |-> [id |-> id.n, name |-> PyStr(ItemGet(item, "name")),
                       image_path |-> PyStr(ItemGet(item, "image"))]]
        ELSE [ok |-> FALSE, opt |-> [id |-> 0, name |-> "", image_path |-> ""]]

\* The loop of load_options_file over raw: the first element that raises
\* ends it with no result.
RECURSIVE ParseItems(_, _, _)
ParseItems(items, i, acc) ==
    IF i > Len(items) THEN [ok |-> TRUE, options |-> acc]
    ELSE LET m == MakeOption(items[i])
         IN  IF m.ok THEN ParseItems(items, i + 1, Append(acc, m.opt))
             ELSE [ok |-> FALSE, options |-> << >>]

\* options.json as read by json.load: unreadable (missing, I/O error or no
\* JSON), a JSON scalar (not iterable), or an array of elements.
Unreadable == [readable |-> FALSE, iterable |-> FALSE, items |-> << >>]
Scalar == [readable |-> TRUE, iterable |-> FALSE, items |-> << >>]
Array(items) == [readable |-> TRUE, iterable |-> TRUE, items |-> items]

\* options.json when no such file exists: open() raises, and
\* os.path.exists(OPTIONS_JSON) is false.
NoFile == [readable |-> FALSE, iterable |-> FALSE, items |-> << >>,
           absent |-> TRUE]

\* [o.name for o in options]
NamesOf(opts) == [i \in 1..Len(opts) |-> opts[i].name]

\* Mutant of IndexByName: the first entry with a name keeps the key.
IndexByNameFirstWins(opts, i, acc) ==
    [name \in {opts[k].name : k \in 1..Len(opts)} |->
        opts[CHOOSE k \in 1..Len(opts) :
                /\ opts[k].name = name
                /\ \A m \in 1..(k - 1) : opts[m].name # name]]

\* {o.name: o for o in options}: a later entry replaces an earlier one
RECURSIVE IndexByName(_, _, _)
IndexByName(opts, i, acc) ==
    IF i > Len(opts) THEN acc
    ELSE IndexByName(opts, i + 1, Put(acc, opts[i].name, opts[i]))

InSeq(x, seq) == \E i \in 1..Len(seq) : seq[i] = x

(***************************************************************************)
(* _ensure_sample_options                                                  *)
(***************************************************************************)
\* f"images/sample_{i+1}.png", f"Option {i+1}"
SamplePath(n) == "images/sample_" \o ToString(n) \o ".png"
SampleName(n) == "Option " \o ToString(n)
SamplePaths == {SamplePath(n) : n \in 1..NumSamples}

\* {"id": i+1, "name": f"Option {i+1}", "image": f"images/sample_{i+1}.png"}
SampleItem(n) ==
    Obj(AllFields, JInt(n), JStr(SampleName(n)), JStr(SamplePath(n)))

\* json.dump(sample, f)
SampleConfig == Array([n \in 1..NumSamples |-> SampleItem(n)])

\* Image.new("RGBA", (256, 256), ...) with the number drawn on it (or not,
\* when the drawing raises), saved to the path.  pix names the content made
\* for sample n.
SampleImage(n) == ImageFile("S" \o ToString(n), 256, 256)

\* What the bootstrap wrote: nothing
NothingWritten == [json |-> NoFile, images |-> {}]

\* Mutant of EnsureSampleOptions: the samples are written whether
\* options.json exists or not.
EnsureSampleOptionsAlways(cfg, f) ==
    [fs |-> [p \in (DOMAIN f) \cup SamplePaths |->
                IF p \in SamplePaths /\ ~Exists(f, p)
                THEN SampleImage(CHOOSE n \in 1..NumSamples : SamplePath(n) = p)
                ELSE f[p]],
     json |-> SampleConfig,
     wrote |-> [json |-> SampleConfig,
                images |-> {p \in SamplePaths : ~Exists(f, p)}]]

\* NineGridApp._ensure_sample_options with options.json holding cfg, over
\* the files f: the files after, options.json after, and what was written.
EnsureSampleOptions(cfg, f) ==
    IF cfg # NoFile THEN [fs |-> f, json |-> cfg, wrote |-> NothingWritten]
    ELSE [fs |-> [p \in (DOMAIN f) \cup SamplePaths |->
                     IF p \in SamplePaths /\ ~Exists(f, p)
                     THEN SampleImage(CHOOSE n \in 1..NumSamples :
                                          SamplePath(n) = p)
                     ELSE f[p]],
          json |-> SampleConfig,
          wrote |-> [json |-> SampleConfig,
                     images |-> {p \in SamplePaths : ~Exists(f, p)}]]

(***************************************************************************)
(* The inputs explored                                                     *)
(***************************************************************************)
Paths == {"a.png", "b.png"}

ImgP == ImageFile("P", 256, 256)
ImgQ == ImageFile("Q", 100, 50)
FileContents == {Missing, Corrupt, ImgP, ImgQ}

ItemA == Obj(AllFields, JInt(1), JStr("A"), JStr("a.png"))
ItemB == Obj(AllFields, JInt(2), JStr("B"), JStr("b.png"))
ItemA2 == Obj(AllFields, JStr("3"), JStr("A"), JStr("b.png"))
ItemEmptyName == Obj(AllFields, JInt(4), JStr(""), JStr("a.png"))
ItemEmptyPath == Obj(AllFields, JInt(5), JStr("B"), JStr(""))
ItemBadId == Obj(AllFields, JStr("x"), JStr("B"), JStr("b.png"))
ItemNoId == Obj({"name", "image"}, JNull, JStr("B"), JStr("b.png"))
ItemNoName == Obj({"id", "image"}, JInt(6), JNull, JStr("a.png"))
ItemNoImage == Obj({"id", "name"}, JInt(7), JStr("B"), JNull)

ConfigFiles ==
    { Unreadable, Scalar, Array(<< >>),
      Array(<<ItemA, ItemB>>), Array(<<ItemA, ItemA2>>),
      Array(<<ItemEmptyName, ItemEmptyPath>>),
      Array(<<ItemNoName, ItemNoImage>>),
      Array(<<ItemA, ItemBadId>>), Array(<<ItemBadId, ItemA>>),
      Array(<<ItemNoId>>), Array(<<ItemA, NotObj>>) }

\* The contents the environment gives each image file while the
\* application runs: a.png comes and goes, b.png is good or corrupt.
AppFiles(path) ==
    IF path = "a.png" THEN {Missing, ImgP} ELSE {Corrupt, ImgQ}

\* The names a combobox can hand to _on_cell_change: the empty value and
\* every option name the configuration files give.
SelectableNames == {"", "A", "B", "None"}

\* The paths and sizes a client of the cache asks for.
GetPaths == Paths \cup {"", "None"}
GetSizes == {NoSize, CellSize}

(***************************************************************************)
(* State                                                                   *)
(***************************************************************************)
VARIABLES
    pc,              \* "boot" until __init__ has run, then "run"
    fs,              \* the image files on disk, by path
    orig_cache,      \* ImageCache._orig_cache
    thumb_cache,     \* ImageCache._thumb_cache
    decoded,         \* per path, the Image objects decoded so far
    made,            \* per key, the PhotoImage objects built so far
    options,         \* NineGridApp.options
    option_names,    \* NineGridApp.option_names
    name_to_option,  \* NineGridApp.name_to_option
    cells,           \* per cell: combo values, name_var, the label's image
                     \* option (shown) and its image attribute
    status_var,      \* NineGridApp.status_var
    msg,             \* title of the error dialog the last operation showed
    wrote,           \* what _ensure_sample_options wrote: the content of
                     \* options.json and the image files it created
    dropped,         \* the cells whose selection the last operation reset
                     \* because it was no longer an option name
    last             \* the last client call of ImageCache.get: its
                     \* arguments, the file then at the path, whether the
                     \* key was cached, the value returned, and whether it
                     \* retried a call that had just returned None

cacheVars == <<orig_cache, thumb_cache, decoded, made>>
storeVars == <<options, option_names, name_to_option>>
vars == <<pc, fs, orig_cache, thumb_cache, decoded, made, options,
          option_names, name_to_option, cells, status_var, msg, wrote,
          dropped, last>>

Cells == 1..NumCells

Cache == [orig |-> orig_cache, thumb |-> thumb_cache, decoded |-> decoded,
          made |-> made]

SetCache(c) ==
    /\ orig_cache' = c.orig
    /\ thumb_cache' = c.thumb
    /\ decoded' = c.decoded
    /\ made' = c.made

\* No client call yet
NoCall == [path |-> "", size |-> NoSize, file |-> Missing, hit |-> FALSE,
           ret |-> NoBitmap, retry |-> FALSE]

\* _create_cell: an empty combobox and a label with no image
NewCell == [values |-> << >>, name_var |-> "", shown |-> NoBitmap,
            image |-> NoBitmap]

(***************************************************************************)
(* Cell handlers                                                           *)
(***************************************************************************)
\* img_label.configure(image=v) with v a PhotoImage or None: tkinter drops
\* an option whose value is None before it calls Tk, so the label keeps the
\* image it shows.
ConfigureImage(shown, v) == IF v = NoBitmap THEN shown ELSE v

\* NineGridApp._on_cell_change on a cell whose name_var is already set
CellChange(cell, c, f, n2o) ==
    LET name == cell.name_var
    IN  IF name \notin DOMAIN n2o
        THEN [cell |-> [cell EXCEPT !.shown = NoBitmap, !.image = NoBitmap],
              c |-> c]
        ELSE LET g == CacheGet(c, f, n2o[name].image_path, CellSize)
             IN  [cell |-> [cell EXCEPT !.shown = ConfigureImage(@, g.ret),
                                        !.image = g.ret],
                  c |-> g.c]

\* Mutant of RefreshCellImage: the label is left as it is.
RefreshKeepImage(cell, c, f, n2o) == [cell |-> cell, c |-> c]

\* NineGridApp._refresh_cell_image: image=tk_img if tk_img else ""
RefreshCellImage(cell, c, f, n2o) ==
    LET name == cell.name_var
        g == IF name \in DOMAIN n2o
             THEN CacheGet(c, f, n2o[name].image_path, CellSize)
             ELSE [ret |-> NoBitmap, c |-> c]
    IN  [cell |-> [cell EXCEPT !.shown = g.ret, !.image = g.ret], c |-> g.c]

\* The selection load_options_file leaves in a cell
KeptSelection(name, names) == IF InSeq(name, names) THEN name ELSE ""

\* Mutant of LoadCells: the combobox values are not replaced.
RECURSIVE LoadCellsKeepValues(_, _, _, _, _, _)
LoadCellsKeepValues(i, cs, c, f, names, n2o) ==
    IF i > NumCells THEN [cells |-> cs, c |-> c]
    ELSE LET cell == [cs[i] EXCEPT !.name_var = KeptSelection(@, names)]
             r == RefreshCellImage(cell, c, f, n2o)
         IN  LoadCellsKeepValues(i + 1, [cs EXCEPT ![i] = r.cell], r.c, f,
                                 names, n2o)

\* for cell in self.cells: ... (nine.py:175-181), cells i..NumCells
RECURSIVE LoadCells(_, _, _, _, _, _)
LoadCells(i, cs, c, f, names, n2o) ==
    IF i > NumCells THEN [cells |-> cs, c |-> c]
    ELSE LET cell == [cs[i] EXCEPT
                        !.values = names,
                        !.name_var = KeptSelection(@, names)]
             r == RefreshCellImage(cell, c, f, n2o)
         IN  LoadCells(i + 1, [cs EXCEPT ![i] = r.cell], r.c, f, names, n2o)

(***************************************************************************)
(* Operations                                                              *)
(***************************************************************************)
\* The options built before the first element that raises
RECURSIVE ParsedPrefix(_, _, _)
ParsedPrefix(items, i, acc) ==
    IF i > Len(items) \/ ~MakeOption(items[i]).ok THEN acc
    ELSE ParsedPrefix(items, i + 1, Append(acc, MakeOption(items[i]).opt))

\* Mutant of LoadOptionsFile: the loop appends to self.options itself, so
\* a load that fails half-way has already replaced the option list.
LoadOptionsFileInPlace(cfg) ==
    LET parsed == ParseItems(cfg.items, 1, << >>) IN
    IF ~cfg.readable
    THEN /\ msg' = LoadFailed
         /\ dropped' = {}
         /\ UNCHANGED <<cacheVars, storeVars, cells, status_var>>
    ELSE IF ~cfg.iterable \/ ~parsed.ok
    THEN /\ msg' = InvalidFormat
         /\ dropped' = {}
         /\ options' = ParsedPrefix(cfg.items, 1, << >>)
         /\ UNCHANGED <<cacheVars, option_names, name_to_option, cells,
                        status_var>>
    ELSE LET names == NamesOf(parsed.options)
             n2o == IndexByName(parsed.options, 1, EmptyDict)
             r == LoadCells(1, cells, Cache, fs, names, n2o)
         IN  /\ options' = parsed.options
             /\ option_names' = names
             /\ name_to_option' = n2o
             /\ cells' = r.cells
             /\ SetCache(r.c)
             /\ status_var' = StatusLoaded
             /\ msg' = NoDialog
             /\ dropped' = {i \in Cells : ~InSeq(cells[i].name_var, names)}

\* NineGridApp.load_options_file(path) when path holds cfg, over the image
\* files f
LoadOptionsFileOn(cfg, f) ==
    LET parsed == ParseItems(cfg.items, 1, << >>) IN
    IF ~cfg.readable
    THEN /\ msg' = LoadFailed
         /\ dropped' = {}
         /\ UNCHANGED <<cacheVars, storeVars, cells, status_var>>
    ELSE IF ~cfg.iterable \/ ~parsed.ok
    THEN /\ msg' = InvalidFormat
         /\ dropped' = {}
         /\ UNCHANGED <<cacheVars, storeVars, cells, status_var>>
    ELSE LET names == NamesOf(parsed.options)
             n2o == IndexByName(parsed.options, 1, EmptyDict)
             r == LoadCells(1, cells, Cache, f, names, n2o)
         IN  /\ options' = parsed.options
             /\ option_names' = names
             /\ name_to_option' = n2o
             /\ cells' = r.cells
             /\ SetCache(r.c)
             /\ status_var' = StatusLoaded
             /\ msg' = NoDialog
             /\ dropped' = {i \in Cells : ~InSeq(cells[i].name_var, names)}

\* NineGridApp.load_options_file(path) when path holds cfg
LoadOptionsFile(cfg) == LoadOptionsFileOn(cfg, fs)

\* NineGridApp.__init__ after _build_ui, with options.json holding cfg (or
\* absent): _ensure_sample_options, then load_options_file(OPTIONS_JSON).
Startup(cfg) ==
    LET b == EnsureSampleOptions(cfg, fs)
    IN  /\ pc = "boot"
        /\ fs' = b.fs
        /\ wrote' = b.wrote
        /\ LoadOptionsFileOn(b.json, b.fs)
        /\ pc' = "run"
        /\ UNCHANGED last

\* A later call of load_options_file
Reload(cfg) ==
    /\ pc = "run"
    /\ LoadOptionsFile(cfg)
    /\ UNCHANGED <<pc, fs, wrote, last>>

\* The user picks name in cell i's combobox (one of its values, or the
\* empty value); the combobox sets name_var and <<ComboboxSelected>> runs
\* _on_cell_change.
OnCellChange(i, name) ==
    /\ pc = "run"
    /\ name = "" \/ InSeq(name, cells[i].values)
    /\ LET r == CellChange([cells[i] EXCEPT !.name_var = name], Cache, fs,
                           name_to_option)
       IN  /\ cells' = [cells EXCEPT ![i] = r.cell]
           /\ SetCache(r.c)
    /\ msg' = NoDialog
    /\ dropped' = {}
    /\ UNCHANGED <<pc, fs, storeVars, status_var, wrote, last>>

\* Mutant of OnClearAll: the image attribute is dropped but the label is
\* not reconfigured.
OnClearAllAttrOnly ==
    /\ pc = "run"
    /\ cells' = [i \in Cells |->
                   [cells[i] EXCEPT !.name_var = "", !.image = NoBitmap]]
    /\ status_var' = StatusCleared
    /\ msg' = NoDialog
    /\ dropped' = {}
    /\ UNCHANGED <<pc, fs, cacheVars, storeVars, wrote, last>>

\* NineGridApp.on_clear_all
OnClearAll ==
    /\ pc = "run"
    /\ cells' = [i \in Cells |->
                   [cells[i] EXCEPT !.name_var = "", !.shown = NoBitmap,
                                    !.image = NoBitmap]]
    /\ status_var' = StatusCleared
    /\ msg' = NoDialog
    /\ dropped' = {}
    /\ UNCHANGED <<pc, fs, cacheVars, storeVars, wrote, last>>

\* A client calls image_cache.get(path, size) directly.
Get(path, size) ==
    /\ pc = "run"
    /\ LET g == CacheGet(Cache, fs, path, size)
       IN  /\ last' = [path |-> path, size |-> size,
                       file |-> IF path \in DOMAIN fs THEN fs[path] ELSE Missing,
                       hit |-> Key(path, size) \in DOMAIN thumb_cache,
                       ret |-> g.ret,
                       retry |-> /\ last # NoCall
                                 /\ last.path = path
                                 /\ last.size = size
                                 /\ last.ret = NoBitmap]
           /\ SetCache(g.c)
    /\ msg' = NoDialog
    /\ dropped' = {}
    /\ UNCHANGED <<pc, fs, storeVars, cells, status_var, wrote>>

\* The environment rewrites, corrupts, creates or removes an image file.
SetFile(path, content) ==
    /\ pc = "run"
    /\ fs[path] # content
    /\ fs' = [fs EXCEPT ![path] = content]
    /\ msg' = NoDialog
    /\ dropped' = {}
    /\ UNCHANGED <<pc, cacheVars, storeVars, cells, status_var, wrote, last>>

\* The state once _build_ui has run (nine.py:62-68), over the files fset
\* allows.
InitWith(fset) ==
    /\ pc = "boot"
    /\ fs \in fset
    /\ orig_cache = EmptyDict
    /\ thumb_cache = EmptyDict
    /\ decoded = EmptyDict
    /\ made = EmptyDict
    /\ options = << >>
    /\ option_names = << >>
    /\ name_to_option = EmptyDict
    /\ cells = [i \in Cells |-> NewCell]
    /\ status_var = StatusReady
    /\ msg = NoDialog
    /\ wrote = NothingWritten
    /\ dropped = {}
    /\ last = NoCall

(***************************************************************************)
(* Spec: the application (startup, reloads, selections, clear-all) over    *)
(* image files that change under it.                                       *)
(***************************************************************************)
Init == InitWith({f \in [Paths -> FileContents] :
                    \A p \in Paths : f[p] \in AppFiles(p)})

Next ==
    \/ \E cfg \in ConfigFiles : Startup(cfg)
    \/ \E cfg \in ConfigFiles : Reload(cfg)
    \/ \E i \in Cells, name \in SelectableNames : OnCellChange(i, name)
    \/ OnClearAll
    \/ \E path \in Paths : \E content \in AppFiles(path) : SetFile(path, content)

Spec == Init /\ [][Next]_vars

(***************************************************************************)
(* SpecCache: a client of the ImageCache calling get with any path and     *)
(* size, over image files that change under it.                            *)
(***************************************************************************)
InitCache == InitWith([Paths -> FileContents])

NextCache ==
    \/ \E cfg \in {Unreadable, Array(<< >>)} : Startup(cfg)
    \/ \E path \in GetPaths, size \in GetSizes : Get(path, size)
    \/ \E path \in Paths, content \in FileContents : SetFile(path, content)

SpecCache == InitCache /\ [][NextCache]_vars

(***************************************************************************)
(* SpecThumb: get(path, (220, 220)) on an image of every size up to        *)
(* MaxDim x MaxDim.                                                        *)
(***************************************************************************)
InitThumb ==
    InitWith({[p \in Paths |-> IF p = "a.png" THEN ImageFile("P", w, h)
                                ELSE Missing] : w \in 1..MaxDim, h \in 1..MaxDim})

NextThumb ==
    \/ Startup(Array(<< >>))
    \/ Get("a.png", CellSize)

SpecThumb == InitThumb /\ [][NextThumb]_vars

(***************************************************************************)
(* SpecBox: the first get(path, (W, H)) of a client, for every image size  *)
(* and every box up to MaxSide x MaxSide.                                  *)
(***************************************************************************)
Boxes == {<<bw, bh>> : bw \in 1..MaxSide, bh \in 1..MaxSide}

InitBox ==
    InitWith({[p \in Paths |-> IF p = "a.png" THEN ImageFile("P", w, h)
                                ELSE Missing] : w \in 1..MaxSide, h \in 1..MaxSide})

\* The client's first call of image_cache.get
FirstGet(path, size) == last = NoCall /\ Get(path, size)

NextBox ==
    \/ Startup(Array(<< >>))
    \/ \E size \in Boxes : FirstGet("a.png", size)

SpecBox == InitBox /\ [][NextBox]_vars

(***************************************************************************)
(* SpecBoot: startup with or without options.json, over sample image files *)
(* that exist already (as files that are no images) or not, then           *)
(* selections and clear-all.                                               *)
(***************************************************************************)
BootConfigs == {NoFile, Unreadable, Array(<<ItemA, ItemB>>)}

BootNames == {"", SampleName(NumSamples), "A"}

InitBoot == InitWith([SamplePaths -> {Missing, Corrupt}])

NextBoot ==
    \/ \E cfg \in BootConfigs : Startup(cfg)
    \/ \E i \in Cells, name \in BootNames : OnCellChange(i, name)
    \/ OnClearAll

SpecBoot == InitBoot /\ [][NextBoot]_vars

(***************************************************************************)
(* Claims about the ImageCache (SpecCache)                                 *)
(***************************************************************************)
\* C1 as stated: once get(path, size) has returned a bitmap (its key is in
\* the thumbnail cache), every later get(path, size) returns that bitmap,
\* whatever has happened to the file, its removal included.
C1_Step_Original ==
    \A path \in GetPaths, size \in GetSizes :
        (Get(path, size) /\ Key(path, size) \in DOMAIN thumb_cache)
            => last'.ret = thumb_cache[Key(path, size)]

C1_CachedWhateverFile == [][C1_Step_Original]_vars

\* C1 amended: once get(path, size) has returned a bitmap, a later
\* get(path, size) made while a file exists at the path (rewritten or
\* corrupt alike) returns that same bitmap, decodes nothing, builds nothing
\* and leaves both caches as they are; made while the file is removed it
\* returns absent, again leaving both caches as they are.
C1_Step ==
    \A path \in GetPaths, size \in GetSizes :
        (Get(path, size) /\ Key(path, size) \in DOMAIN thumb_cache)
            => /\ last'.ret = IF Exists(fs, path)
                              THEN thumb_cache[Key(path, size)]
                              ELSE NoBitmap
               /\ UNCHANGED cacheVars

C1_CachedWhileFileExists == [][C1_Step]_vars

\* A get served from the cache although the file at the path no longer
\* holds the pixels of the cached bitmap.
C1_Witness ==
    /\ last.hit
    /\ last.ret # NoBitmap
    /\ last.file.kind \in {"image", "corrupt"}
    /\ last.file.pix # last.ret.pix
    /\ last.ret = thumb_cache[Key(last.path, last.size)]

\* C2: every key of the thumbnail cache is the key of a path held by the
\* original-decode cache, and a get whose path is empty or missing, or
\* whose decode fails, adds no entry to either cache.
C2_Inv ==
    \A key \in DOMAIN thumb_cache :
        \E path \in DOMAIN orig_cache :
            \E size \in GetSizes : key = Key(path, size)

C2_Step ==
    \A path \in GetPaths, size \in GetSizes :
        (/\ Get(path, size)
         /\ \/ path = ""
            \/ ~Exists(fs, path)
            \/ path \notin DOMAIN orig_cache /\ fs[path].kind = "corrupt")
            => /\ orig_cache' = orig_cache
               /\ thumb_cache' = thumb_cache
               /\ last'.ret = NoBitmap

C2_ThumbOnlyAfterDecode == [](C2_Inv) /\ [][C2_Step]_vars

\* A failed decode of a corrupt file, with thumbnails of another path cached.
C2_Witness ==
    /\ last.ret = NoBitmap
    /\ last.file.kind = "corrupt"
    /\ last.path \notin DOMAIN orig_cache
    /\ thumb_cache # EmptyDict
    /\ orig_cache # EmptyDict

\* C11 as stated: when get(path, size) has returned absent and the file at
\* the path has become a valid image, the next get(path, size) decodes that
\* file, returns a bitmap of it and adds an entry to both caches.
C11_Step_Original ==
    \A path \in Paths, size \in GetSizes :
        (Get(path, size) /\ last'.retry /\ fs[path].kind = "image")
            => /\ last'.ret # NoBitmap
               /\ last'.ret.pix = fs[path].pix
               /\ path \notin DOMAIN orig_cache
               /\ path \in DOMAIN orig_cache'
               /\ Key(path, size) \in DOMAIN thumb_cache'

C11_FailedGetRetriedDecodes == [][C11_Step_Original]_vars

\* C11 amended: a get never stores a failure, so when get(path, size) has
\* returned absent and the file at the path has become a valid image, the
\* next get(path, size) returns a bitmap.  If the path has no entry in the
\* original-decode cache (it was never decoded), the call decodes the file
\* now at the path, returns a bitmap of it and adds an entry to both
\* caches; if the path was decoded before its file went missing, the call
\* decodes nothing and returns a bitmap of the image decoded then.
C11_Step ==
    \A path \in Paths, size \in GetSizes :
        (Get(path, size) /\ last'.retry /\ fs[path].kind = "image")
            => /\ last'.ret # NoBitmap
               /\ thumb_cache'[Key(path, size)] = last'.ret
               /\ IF path \notin DOMAIN orig_cache
                  THEN /\ last'.ret.pix = fs[path].pix
                       /\ orig_cache'[path].pix = fs[path].pix
                       /\ decoded'[path] = 1
                       /\ Key(path, size) \notin DOMAIN thumb_cache
                  ELSE /\ last'.ret.pix = orig_cache[path].pix
                       /\ orig_cache' = orig_cache
                       /\ decoded' = decoded

C11_FailedGetNotCached == [][C11_Step]_vars

\* A get that failed on a corrupt file has been retried over a valid image
\* and has decoded it for the first time.
C11_Witness ==
    /\ last.retry
    /\ last.ret # NoBitmap
    /\ ~last.hit
    /\ last.file.kind = "image"
    /\ last.ret.pix = last.file.pix
    /\ decoded[last.path] = 1
    /\ orig_cache[last.path].serial = 1

(***************************************************************************)
(* Claims about the application (Spec)                                     *)
(***************************************************************************)
\* C3 as stated: when a successful load makes a cell's selection invalid,
\* the selection is cleared to empty and the image the cell displayed is
\* left unchanged.
C3_Step_Original ==
    \A cfg \in ConfigFiles :
        (LoadOptionsFile(cfg) /\ msg' = NoDialog)
            => \A i \in Cells :
                  ~InSeq(cells[i].name_var, option_names')
                      => /\ cells'[i].name_var = ""
                         /\ cells'[i].shown = cells[i].shown

C3_StaleImageKept == [][C3_Step_Original]_vars

\* What _refresh_cell_image displays for the empty selection: nothing,
\* unless an option is named "" and its image can be had.
EmptyNameImage ==
    IF /\ "" \in DOMAIN name_to_option
       /\ Exists(fs, name_to_option[""].image_path)
       /\ Key(name_to_option[""].image_path, CellSize) \in DOMAIN thumb_cache
    THEN thumb_cache[Key(name_to_option[""].image_path, CellSize)]
    ELSE NoBitmap

\* C3 amended: when a successful load makes a cell's selection invalid, the
\* selection is cleared to empty and, in the same call, the cell's image is
\* replaced by what the empty selection displays: no image (the stale image
\* does not persist), unless the new option set has an option named "",
\* whose thumbnail is then shown.
\* (Checked in the contrapositive: a step that leaves an invalidated cell
\* otherwise is no successful load.)
C3_Step ==
    (\E i \in Cells :
        /\ ~InSeq(cells[i].name_var, option_names')
        /\ ~(/\ cells'[i].name_var = ""
              /\ cells'[i].shown = EmptyNameImage'
              /\ cells'[i].image = EmptyNameImage'))
        => ~(\E cfg \in ConfigFiles : LoadOptionsFile(cfg) /\ msg' = NoDialog)

C3_InvalidSelectionClearsImage == [][C3_Step]_vars

\* A load has just reset the selection of a cell that had one, and the cell
\* shows nothing, while another cell kept its selection and its image.
C3_Witness ==
    /\ pc = "run"
    /\ status_var = StatusLoaded
    /\ \E i \in dropped :
          /\ cells[i].name_var = ""
          /\ cells[i].shown = NoBitmap
          /\ InSeq("B", cells[i].values) => ~InSeq("A", cells[i].values)
    /\ \E j \in Cells \ dropped : cells[j].shown # NoBitmap

\* A configuration file that makes load_options_file fail
FailsToLoad(cfg) ==
    \/ ~cfg.readable
    \/ ~cfg.iterable
    \/ \E k \in 1..Len(cfg.items) : ~MakeOption(cfg.items[k]).ok

FailingConfigs == {cfg \in ConfigFiles : FailsToLoad(cfg)}

\* C4: a load that reports an error (unreadable file, invalid JSON, an
\* element that fails coercion at any position) changes nothing: the option
\* store, every cell (dropdown values, selection, image) and the status text
\* are what they were; and every such file does report an error.
C4_Step ==
    /\ msg' # NoDialog
          => UNCHANGED <<storeVars, cells, status_var, cacheVars>>
    /\ msg' = NoDialog
          => \A cfg \in FailingConfigs : ~LoadOptionsFile(cfg)

C4_FailedLoadChangesNothing == [][C4_Step]_vars

\* A load has just failed on an element that raised, over a loaded option
\* set with a cell displaying an image.
C4_Witness ==
    /\ msg = InvalidFormat
    /\ Len(options) = 2
    /\ status_var = StatusLoaded
    /\ \E i \in Cells : cells[i].name_var # "" /\ cells[i].shown # NoBitmap

\* An element that has a non-integer-coercible id or lacks a field
Malformed(item) ==
    item.isdict /\ (item.has # AllFields \/ ~PyInt(item.id).ok)

\* C5: a load of a file in which some element has a non-integer-coercible
\* id or lacks one of the fields id, name, image is aborted with an error
\* dialog, and the option set stays as it was.
C5_Step ==
    \A cfg \in ConfigFiles :
        (/\ LoadOptionsFile(cfg)
         /\ cfg.readable /\ cfg.iterable
         /\ \E k \in 1..Len(cfg.items) : Malformed(cfg.items[k]))
            => msg' = InvalidFormat /\ UNCHANGED storeVars

C5_MissingFieldRejected == [][C5_Step]_vars

\* An option store loaded from a file whose elements have every field, a
\* non-empty name and an image path
PlainStore ==
    \A k \in 1..Len(options) :
        options[k].name \in {"A", "B"} /\ options[k].image_path \in Paths

\* C7: once startup has finished, no cell displays an image while its
\* selection is empty (each cell is empty, selected-with-image or
\* selected-without-image).
C7_NoImageWithoutSelection ==
    pc = "run" =>
        \A i \in Cells : cells[i].name_var = "" => cells[i].shown = NoBitmap

\* C8: a selection change on cell i clears its image when the name is not
\* in the option store, else makes its image the result of
\* image_cache.get(option.image_path, (220, 220)), absent included; the
\* other cells and the option store are unchanged.  (Stated over the option
\* stores of well-formed files, so that a violation rests on the selection
\* handler alone.)
C8_Step ==
    \A i \in Cells, name \in SelectableNames :
        (OnCellChange(i, name) /\ PlainStore)
            => /\ cells'[i].name_var = name
               /\ cells'[i].shown =
                     IF name \in DOMAIN name_to_option
                     THEN CacheGet(Cache, fs, name_to_option[name].image_path,
                                   CellSize).ret
                     ELSE NoBitmap
               /\ \A j \in Cells \ {i} : cells'[j] = cells[j]
               /\ UNCHANGED storeVars

C8_SelectionBindsGetResult == [][C8_Step]_vars

\* C9: after on_clear_all every cell has an empty selection and no image
\* and the status text is the clear-all message; the option store, the
\* dropdown value lists and both image caches are unchanged.
C9_Step ==
    OnClearAll
        => /\ \A i \in Cells :
                 /\ cells'[i].name_var = ""
                 /\ cells'[i].shown = NoBitmap
                 /\ cells'[i].image = NoBitmap
                 /\ cells'[i].values = cells[i].values
           /\ status_var' = StatusCleared
           /\ UNCHANGED <<storeVars, orig_cache, thumb_cache>>

C9_ClearAllResetsCells == [][C9_Step]_vars

\* Clear-all has run over a loaded option set and populated caches, and
\* every cell is empty.
C9_Witness ==
    /\ status_var = StatusCleared
    /\ \A i \in Cells :
          /\ cells[i].name_var = ""
          /\ cells[i].shown = NoBitmap
          /\ Len(cells[i].values) = 2
    /\ Cardinality(DOMAIN thumb_cache) = 2

\* C10: for an empty path or one that is no existing file, get with any
\* size or none returns absent and leaves both caches unchanged; and a cell
\* that selects an option with such a path ends with no displayed image.
\* (The cell part is stated over the option stores of well-formed files.)
C10_Get ==
    \A path \in GetPaths, size \in GetSizes :
        (path = "" \/ ~Exists(fs, path))
            => CacheGet(Cache, fs, path, size) = [ret |-> NoBitmap, c |-> Cache]

C10_Step ==
    \A i \in Cells, name \in SelectableNames :
        (/\ OnCellChange(i, name)
         /\ PlainStore
         /\ name \in DOMAIN name_to_option
         /\ \/ name_to_option[name].image_path = ""
            \/ ~Exists(fs, name_to_option[name].image_path))
            => cells'[i].shown = NoBitmap /\ msg' = NoDialog

C10_AbsentPathShowsNothing == [](C10_Get) /\ [][C10_Step]_vars

\* C12: each key of the original-decode cache and of the thumbnail cache is
\* written at most once (one Image object is ever decoded per path, one
\* PhotoImage ever built per key), a stored entry is never removed nor
\* replaced, and so the bitmap a cell holds for its selection is the one
\* cached for that option's path at the cell size: two cells with the same
\* selection that hold a bitmap hold the same object.
C12_Inv ==
    /\ DOMAIN decoded = DOMAIN orig_cache
    /\ DOMAIN made = DOMAIN thumb_cache
    /\ \A path \in DOMAIN decoded : decoded[path] = 1
    /\ \A key \in DOMAIN made : made[key] = 1
    /\ \A i \in Cells :
          cells[i].image # NoBitmap
              => /\ cells[i].name_var \in DOMAIN name_to_option
                 /\ LET key == Key(name_to_option[cells[i].name_var].image_path,
                                   CellSize)
                    IN  /\ key \in DOMAIN thumb_cache
                        /\ cells[i].image = thumb_cache[key]
    /\ \A i, j \in Cells :
          (/\ cells[i].name_var = cells[j].name_var
           /\ cells[i].image # NoBitmap
           /\ cells[j].image # NoBitmap)
              => cells[i].image = cells[j].image

C12_Step ==
    /\ \A path \in DOMAIN orig_cache :
          path \in DOMAIN orig_cache' /\ orig_cache'[path] = orig_cache[path]
    /\ \A key \in DOMAIN thumb_cache :
          key \in DOMAIN thumb_cache' /\ thumb_cache'[key] = thumb_cache[key]

C12_CacheEntriesWrittenOnce == [](C12_Inv) /\ [][C12_Step]_vars

\* Two cells hold the one bitmap of their common selection, both paths are
\* cached, and a cached file has since been corrupted on disk.
C12_Witness ==
    /\ \E i, j \in Cells :
          /\ i # j
          /\ cells[i].name_var = cells[j].name_var
          /\ cells[i].image # NoBitmap
          /\ cells[i].image = cells[j].image
    /\ Cardinality(DOMAIN thumb_cache) = 2
    /\ Cardinality(DOMAIN orig_cache) = 2
    /\ fs["b.png"].kind = "corrupt"

\* The names several entries of opts share, and the last entry of a name
DupNames(opts) ==
    {opts[k].name : k \in {n \in 1..Len(opts) :
                              \E m \in 1..Len(opts) :
                                  m # n /\ opts[m].name = opts[n].name}}

LastWithName(opts, name) ==
    opts[CHOOSE k \in 1..Len(opts) :
            /\ opts[k].name = name
            /\ \A m \in (k + 1)..Len(opts) : opts[m].name # name]

\* The loadable configuration files in which several entries share a name
DupConfigs ==
    {cfg \in ConfigFiles \ FailingConfigs :
        DupNames(ParseItems(cfg.items, 1, << >>).options) # {}}

\* C13: a load of a file in which several entries share a name reports no
\* error and maps the name to its last entry in file order; a cell that
\* then selects the name is given the result of image_cache.get for the
\* image path of that last entry.
C13_Step ==
    /\ \A cfg \in DupConfigs :
          LoadOptionsFile(cfg)
              => /\ msg' = NoDialog
                 /\ options' = ParseItems(cfg.items, 1, << >>).options
                 /\ \A name \in DupNames(options') :
                       name_to_option'[name] = LastWithName(options', name)
    /\ \A i \in Cells, name \in DupNames(options) :
          OnCellChange(i, name)
              => cells'[i].image =
                    CacheGet(Cache, fs, LastWithName(options, name).image_path,
                             CellSize).ret

C13_DuplicateNameLastWins == [][C13_Step]_vars

\* Over a file with two entries named A, a cell that selects A holds the
\* bitmap of the second entry's path while the first entry's file is a
\* valid image too.
C13_Witness ==
    /\ msg = NoDialog
    /\ DupNames(options) = {"A"}
    /\ options[1].image_path = "a.png"
    /\ options[2].image_path = "b.png"
    /\ fs["a.png"].kind = "image"
    /\ \E i \in Cells :
          /\ cells[i].name_var = "A"
          /\ cells[i].image # NoBitmap
          /\ cells[i].image.key = Key("b.png", CellSize)
          /\ cells[i].shown = cells[i].image

\* C16: a cell that displays an image has a selection that is a key of
\* name_to_option, and the image displayed is the thumbnail-cache entry for
\* the image path of that option at the cell size.  (Stated over the option
\* stores of well-formed files.)
C16_DisplayedIsSelectionsThumb ==
    PlainStore =>
        \A i \in Cells :
            cells[i].shown # NoBitmap
                => /\ cells[i].name_var \in DOMAIN name_to_option
                   /\ LET key == Key(name_to_option[cells[i].name_var].image_path,
                                     CellSize)
                      IN  /\ key \in DOMAIN thumb_cache
                          /\ cells[i].shown = thumb_cache[key]

\* C17: option_names is the list of the names of options in file order,
\* the keys of name_to_option are the names in option_names, every value of
\* name_to_option is an element of options filed under its own name, and
\* every cell's dropdown values are option_names.
C17_OptionStoreConsistent ==
    /\ Len(option_names) = Len(options)
    /\ \A k \in 1..Len(options) : option_names[k] = options[k].name
    /\ DOMAIN name_to_option = {option_names[k] : k \in 1..Len(option_names)}
    /\ \A name \in DOMAIN name_to_option :
          /\ name_to_option[name].name = name
          /\ \E k \in 1..Len(options) : options[k] = name_to_option[name]
    /\ \A i \in Cells : cells[i].values = option_names

\* A load has just failed over a store loaded from a file with two entries
\* of one name, after an earlier store with two names.
C17_Witness ==
    /\ msg # NoDialog
    /\ Len(options) = 2
    /\ Cardinality(DOMAIN name_to_option) = 1
    /\ \A i \in Cells : Len(cells[i].values) = 2
    /\ DOMAIN thumb_cache = {Key("a.png", CellSize), Key("b.png", CellSize)}

(***************************************************************************)
(* Claims about containment scaling (SpecThumb)                            *)
(***************************************************************************)
\* C6: for a decodable image of width w and height h that is narrower than
\* the box (w < W) or taller than it (h > H), the bitmap get(path, (W, H))
\* returns has its longer dimension equal to the box dimension, its shorter
\* dimension within the box, and the aspect ratio of the original within
\* the rounding of one pixel.
C6_LongSideFillsBox ==
    (/\ last.ret # NoBitmap
     /\ last.size = CellSize
     /\ last.file.w < CELL_WIDTH \/ last.file.h > CELL_HEIGHT)
        => LET w == last.file.w
               h == last.file.h
               rw == last.ret.w
               rh == last.ret.h
           IN  /\ IF w >= h THEN rw = CELL_WIDTH /\ rh <= CELL_HEIGHT
                            ELSE rh = CELL_HEIGHT /\ rw <= CELL_WIDTH
               /\ Abs(rw * h - rh * w) <= Max2(w, h)

(***************************************************************************)
(* Claims about containment scaling in any box (SpecBox)                   *)
(***************************************************************************)
Min2(a, b) == IF a <= b THEN a ELSE b

\* C14: for a decodable image of width w and height h and a positive box
\* (W, H), the bitmap get(path, (W, H)) returns has width <= min(w, W) and
\* height <= min(h, H), both at least one pixel, and the original in
\* the original-decode cache keeps the size (w, h).
C14_ShrinkOnly ==
    (last.ret # NoBitmap /\ Len(last.size) = 2)
        => /\ last.ret.w >= 1
           /\ last.ret.h >= 1
           /\ last.ret.w <= Min2(last.file.w, last.size[1])
           /\ last.ret.h <= Min2(last.file.h, last.size[2])
           /\ orig_cache[last.path].w = last.file.w
           /\ orig_cache[last.path].h = last.file.h
           /\ thumb_cache[Key(last.path, last.size)] = last.ret

\* An image larger than a non-square box in both dimensions has been
\* shrunk to the width of the box, its height falling short of the box.
C14_Witness ==
    /\ last.ret # NoBitmap
    /\ last.size[1] # last.size[2]
    /\ last.file.w > last.size[1]
    /\ last.file.h > last.size[2]
    /\ last.ret.w = last.size[1]
    /\ last.ret.h < last.size[2]
    /\ orig_cache[last.path].w = last.file.w

(***************************************************************************)
(* Claims about the sample bootstrap (SpecBoot)                            *)
(***************************************************************************)
NineNames ==
    <<"Option 1", "Option 2", "Option 3", "Option 4", "Option 5",
      "Option 6", "Option 7", "Option 8", "Option 9">>

NineImages ==
    <<"images/sample_1.png", "images/sample_2.png", "images/sample_3.png",
      "images/sample_4.png", "images/sample_5.png", "images/sample_6.png",
      "images/sample_7.png", "images/sample_8.png", "images/sample_9.png">>

\* C15: a startup with no options.json writes options.json with exactly
\* nine entries (ids 1..9, names Option 1..Option 9, images
\* images/sample_1.png..images/sample_9.png), creates each of the nine
\* sample image files that does not exist yet (256 x 256) and leaves the
\* others as they are, then loads the nine options without an error so
\* that every dropdown lists the nine names in order; a startup with
\* options.json present writes no file at all.
C15_Step ==
    \A cfg \in BootConfigs :
        Startup(cfg)
            => IF cfg = NoFile
               THEN /\ wrote'.json.readable /\ wrote'.json.iterable
                    /\ Len(wrote'.json.items) = 9
                    /\ \A n \in 1..9 :
                          /\ wrote'.json.items[n].has = {"id", "name", "image"}
                          /\ wrote'.json.items[n].id = JInt(n)
                          /\ wrote'.json.items[n].name = JStr(NineNames[n])
                          /\ wrote'.json.items[n].image = JStr(NineImages[n])
                          /\ Exists(fs', NineImages[n])
                          /\ IF Exists(fs, NineImages[n])
                             THEN /\ fs'[NineImages[n]] = fs[NineImages[n]]
                                  /\ NineImages[n] \notin wrote'.images
                             ELSE /\ fs'[NineImages[n]].kind = "image"
                                  /\ fs'[NineImages[n]].w = 256
                                  /\ fs'[NineImages[n]].h = 256
                                  /\ NineImages[n] \in wrote'.images
                          /\ options'[n] = [id |-> n, name |-> NineNames[n],
                                            image_path |-> NineImages[n]]
                          /\ name_to_option'[NineNames[n]] = options'[n]
                    /\ Len(options') = 9
                    /\ option_names' = NineNames
                    /\ \A i \in Cells :
                          /\ cells'[i].values = NineNames
                          /\ cells'[i].name_var = ""
                          /\ cells'[i].shown = NoBitmap
                    /\ msg' = NoDialog
                    /\ status_var' = StatusLoaded
                    /\ pc' = "run"
               ELSE /\ fs' = fs
                    /\ wrote' = NothingWritten
                    /\ pc' = "run"

C15_FreshStartBootstrap == [][C15_Step]_vars

\* After a fresh start that found some sample files in place and created
\* the others, a cell has selected Option 9 and shows the thumbnail of the
\* created sample_9.png.
C15_Witness ==
    /\ pc = "run"
    /\ wrote.json # NoFile
    /\ wrote.images # {}
    /\ wrote.images # {NineImages[n] : n \in 1..9}
    /\ Len(options) = 9
    /\ \E i \in Cells :
          /\ cells[i].values = NineNames
          /\ cells[i].name_var = "Option 9"
          /\ cells[i].shown # NoBitmap
          /\ cells[i].shown.key = Key("images/sample_9.png", CellSize)
          /\ cells[i].shown.w = 220

====
